---- MODULE Spec2Model ----
(***************************************************************************)
(* Model of the wire-crossing engine of day3 (src/day3/src/lib.rs), of the *)
(* IntCode machine of day2 and of the password rule of day4.               *)
(*                                                                         *)
(* Data:  Coord       record [x, y]                                       *)
(*        CornerPair  pair <<c0, c1>> (Rust fields .0 and .1 are [1], [2]) *)
(*        Command     record [dir, count]                                  *)
(*        Wire        its cmds: a sequence of Commands                     *)
(*        &str        a sequence of one-character strings                  *)
(*        Option<T>   <<>> for None, <<v>> for Some(v)                     *)
(*        Result / panic: a record [kind, val] with kind "ok", "err" or    *)
(*                    "panic"                                              *)
(***************************************************************************)
EXTENDS Integers, Sequences, FiniteSets, TLC

VARIABLES
    cmd_self,   \* receiver of a Command method
    cmds_s,     \* the text handed to Wire::new
    input,      \* the two ingested lines handed to part1 / part2
    wire_one,   \* first Wire (its cmds)
    wire_two,   \* second Wire (its cmds)
    start,      \* start coordinate of a trace
    point,      \* the point asked of steps_to_crossover
    cp_self,    \* receiver of a CornerPair method
    cp_other,   \* argument of CornerPair::intersection
    pc,         \* the operation that has run ("start" before any)
    ret,        \* what the operation returned
    stdout,     \* the lines printed so far
    panel,      \* the Panel a display method is called on: <<Wire, Wire>>
    code,       \* IntCode.code, position p of the program at code[p + 1]
    ip,         \* the loop variable i of IntCode::execute
    num         \* the argument of is_valid_double_pair

vars == <<cmd_self, cmds_s, input, wire_one, wire_two, start, point, cp_self, cp_other,
          pc, ret, stdout, panel, code, ip, num>>

-----------------------------------------------------------------------------
(* Bounds of the model *)

\* largest distance of a generated command
MaxDist == 2
\* largest number of commands of a generated wire
MaxCmds == 2
\* coordinates of directly built CornerPairs range over -MaxXY..MaxXY
MaxXY == 2
\* largest number of tokens of a generated command text
MaxTokens == 2

-----------------------------------------------------------------------------
(* Values *)

None == <<>>
Some(v) == <<v>>

Coord(px, py) == [x |-> px, y |-> py]

CornerPair(c0, c1) == <<c0, c1>>

Command(d, n) == [dir |-> d, count |-> n]

Direction == {"Up", "Down", "Left", "Right"}

ORIGIN == Coord(0, 0)

\* i64::min and i64::max
MinI(a, b) == IF a <= b THEN a ELSE b

MaxI(a, b) == IF a >= b THEN a ELSE b

\* i64::abs
AbsI(a) == IF a < 0 THEN 0 - a ELSE a

\* the ranges lo..hi (half-open) and lo..=hi (closed), in iteration order
RangeExclSeq(lo, hi) == [i \in 1..(hi - lo) |-> lo + i - 1]

RangeInclSeq(lo, hi) == [i \in 1..(hi - lo + 1) |-> lo + i - 1]

\* Range::contains for lo..hi, evaluated without enumerating the range
ContainsExcl(lo, hi, v) == lo <= v /\ v < hi

ContainsIncl(lo, hi, v) == lo <= v /\ v <= hi

\* Iterator::rev on a collected sequence
Rev(s) == [i \in 1..Len(s) |-> s[Len(s) + 1 - i]]

\* Vec::contains
SeqContains(s, v) == \E i \in 1..Len(s) : s[i] = v

-----------------------------------------------------------------------------
(* CornerPair *)

\* a variant of Orientation that tests the shared y first
OrientationByY(cp) ==
    IF cp[1].y = cp[2].y THEN "Horizontal" ELSE "Vertical"

Orientation(cp) ==
    IF cp[1].x = cp[2].x THEN "Vertical" ELSE "Horizontal"

\* a variant of Intersection over the closed intervals (endpoints included)
IntersectionClosed(self, other) ==
    LET so == Orientation(self)
        oo == Orientation(other)
    IN  IF so = "Horizontal" /\ oo = "Vertical"
        THEN LET x1 == self[1].x
                 x2 == self[2].x
                 y1 == other[1].y
                 y2 == other[2].y
             IN  IF /\ ContainsIncl(MinI(x1, x2), MaxI(x1, x2), other[1].x)
                    /\ ContainsIncl(MinI(y1, y2), MaxI(y1, y2), self[1].y)
                 THEN Some(Coord(other[1].x, self[1].y))
                 ELSE None
        ELSE IF so = "Vertical" /\ oo = "Horizontal"
        THEN LET y1 == self[1].y
                 y2 == self[2].y
                 x1 == other[1].x
                 x2 == other[2].x
             IN  IF /\ ContainsIncl(MinI(y1, y2), MaxI(y1, y2), other[1].y)
                    /\ ContainsIncl(MinI(x1, x2), MaxI(x1, x2), self[1].x)
                 THEN Some(Coord(self[1].x, other[1].y))
                 ELSE None
        ELSE None

\* a variant of intersection that only answers for a horizontal receiver
IntersectionHorizontalSelf(self, other) ==
    LET so == Orientation(self)
        oo == Orientation(other)
    IN  IF so = "Horizontal" /\ oo = "Vertical"
        THEN LET x1 == self[1].x
                 x2 == self[2].x
                 y1 == other[1].y
                 y2 == other[2].y
             IN  IF /\ ContainsExcl(MinI(x1, x2) + 1, MaxI(x1, x2), other[1].x)
                    /\ ContainsExcl(MinI(y1, y2) + 1, MaxI(y1, y2), self[1].y)
                 THEN Some(Coord(other[1].x, self[1].y))
                 ELSE None
        ELSE None

Intersection(self, other) ==
    LET so == Orientation(self)
        oo == Orientation(other)
    IN  IF so = "Horizontal" /\ oo = "Vertical"
        THEN LET x1 == self[1].x
                 x2 == self[2].x
                 y1 == other[1].y
                 y2 == other[2].y
             IN  IF /\ ContainsExcl(MinI(x1, x2) + 1, MaxI(x1, x2), other[1].x)
                    /\ ContainsExcl(MinI(y1, y2) + 1, MaxI(y1, y2), self[1].y)
                 THEN Some(Coord(other[1].x, self[1].y))
                 ELSE None
        ELSE IF so = "Vertical" /\ oo = "Horizontal"
        THEN LET y1 == self[1].y
                 y2 == self[2].y
                 x1 == other[1].x
                 x2 == other[2].x
             IN  IF /\ ContainsExcl(MinI(y1, y2) + 1, MaxI(y1, y2), other[1].y)
                    /\ ContainsExcl(MinI(x1, x2) + 1, MaxI(x1, x2), self[1].x)
                 THEN Some(Coord(self[1].x, other[1].y))
                 ELSE None
        ELSE None

-----------------------------------------------------------------------------
(* Command *)

Ok(v) == [kind |-> "ok", val |-> v]

Err(msg) == [kind |-> "err", val |-> msg]

Panic(msg) == [kind |-> "panic", val |-> msg]

Digits == <<"0", "1", "2", "3", "4", "5", "6", "7", "8", "9">>

IsDigit(c) == \E i \in 1..10 : Digits[i] = c

DigitVal(c) == (CHOOSE i \in 1..10 : Digits[i] = c) - 1

\* u32::MAX = 4294967295 = U32MaxDiv10 * 10 + U32MaxMod10
U32MaxDiv10 == 429496729

U32MaxMod10 == 5

\* the digit loop of u32::from_str: checked_mul(10) then checked_add(digit)
RECURSIVE ParseDigits(_, _, _)
ParseDigits(s, i, acc) ==
    IF i > Len(s) THEN Ok(acc)
    ELSE IF ~IsDigit(s[i]) THEN Err("InvalidDigit")
    ELSE IF acc > U32MaxDiv10 THEN Err("PosOverflow")
    ELSE IF acc = U32MaxDiv10 /\ DigitVal(s[i]) > U32MaxMod10 THEN Err("PosOverflow")
    ELSE ParseDigits(s, i + 1, acc * 10 + DigitVal(s[i]))

\* str::parse::<u32>: an optional leading '+', then decimal digits; no '-'
ParseU32(s) ==
    IF Len(s) = 0 THEN Err("Empty")
    ELSE IF Len(s) = 1 /\ s[1] \in {"+", "-"} THEN Err("InvalidDigit")
    ELSE IF s[1] = "+" THEN ParseDigits(Tail(s), 1, 0)
    ELSE ParseDigits(s, 1, 0)

CommandNew(cmd_str) ==
    IF Len(cmd_str) < 1 THEN Panic("split_at: mid > len")
    ELSE LET dir_s   == cmd_str[1]
             count_s == Tail(cmd_str)
             count   == ParseU32(count_s)
         IN  IF dir_s \notin {"U", "D", "L", "R"} THEN Panic("unknown direction char")
             ELSE IF count.kind = "err" THEN Panic("unwrap on Err")
             ELSE Ok(Command(CASE dir_s = "U" -> "Up"
                               [] dir_s = "D" -> "Down"
                               [] dir_s = "L" -> "Left"
                               [] dir_s = "R" -> "Right",
                             count.val))

\* a variant of Coords that yields Down and Left runs farthest point first
CoordsNoRev(cmd, st) ==
    LET n == cmd.count
    IN  CASE cmd.dir = "Up" ->
               LET ys == RangeInclSeq(st.y + 1, st.y + n)
               IN  [i \in 1..Len(ys) |-> Coord(st.x, ys[i])]
          [] cmd.dir = "Down" ->
               LET ys == RangeExclSeq(st.y - n, st.y)
               IN  [i \in 1..Len(ys) |-> Coord(st.x, ys[i])]
          [] cmd.dir = "Left" ->
               LET xs == RangeExclSeq(st.x - n, st.x)
               IN  [i \in 1..Len(xs) |-> Coord(xs[i], st.y)]
          [] cmd.dir = "Right" ->
               LET xs == RangeInclSeq(st.x + 1, st.x + n)
               IN  [i \in 1..Len(xs) |-> Coord(xs[i], st.y)]

Coords(cmd, st) ==
    LET n == cmd.count
    IN  CASE cmd.dir = "Up" ->
               LET ys == RangeInclSeq(st.y + 1, st.y + n)
               IN  [i \in 1..Len(ys) |-> Coord(st.x, ys[i])]
          [] cmd.dir = "Down" ->
               LET ys == Rev(RangeExclSeq(st.y - n, st.y))
               IN  [i \in 1..Len(ys) |-> Coord(st.x, ys[i])]
          [] cmd.dir = "Left" ->
               LET xs == Rev(RangeExclSeq(st.x - n, st.x))
               IN  [i \in 1..Len(xs) |-> Coord(xs[i], st.y)]
          [] cmd.dir = "Right" ->
               LET xs == RangeInclSeq(st.x + 1, st.x + n)
               IN  [i \in 1..Len(xs) |-> Coord(xs[i], st.y)]

\* a variant of last_coord in which Down moves the way Up does
LastCoordDownAsUp(cmd, st) ==
    CASE cmd.dir = "Up"    -> Coord(st.x, st.y + cmd.count)
      [] cmd.dir = "Down"  -> Coord(st.x, st.y + cmd.count)
      [] cmd.dir = "Left"  -> Coord(st.x - cmd.count, st.y)
      [] cmd.dir = "Right" -> Coord(st.x + cmd.count, st.y)

LastCoord(cmd, st) ==
    CASE cmd.dir = "Up"    -> Coord(st.x, st.y + cmd.count)
      [] cmd.dir = "Down"  -> Coord(st.x, st.y - cmd.count)
      [] cmd.dir = "Left"  -> Coord(st.x - cmd.count, st.y)
      [] cmd.dir = "Right" -> Coord(st.x + cmd.count, st.y)

-----------------------------------------------------------------------------
(* Wire *)

\* str::split(','): the pieces between the commas, empty pieces kept
RECURSIVE Split(_)
Split(s) ==
    IF \A i \in 1..Len(s) : s[i] # ","
    THEN <<s>>
    ELSE LET i == CHOOSE j \in 1..Len(s) :
                      s[j] = "," /\ \A k \in 1..(j - 1) : s[k] # ","
         IN  <<SubSeq(s, 1, i - 1)>> \o Split(SubSeq(s, i + 1, Len(s)))

\* map(Command::new).collect(): the first token that panics ends the loop
RECURSIVE CollectCommands(_, _, _)
CollectCommands(toks, i, acc) ==
    IF i > Len(toks) THEN Ok(acc)
    ELSE LET c == CommandNew(toks[i])
         IN  IF c.kind = "panic" THEN c
             ELSE CollectCommands(toks, i + 1, Append(acc, c.val))

\* a variant of CollectCommands that drops the tokens that do not parse
RECURSIVE CollectCommandsSkip(_, _, _)
CollectCommandsSkip(toks, i, acc) ==
    IF i > Len(toks) THEN Ok(acc)
    ELSE LET c == CommandNew(toks[i])
         IN  IF c.kind = "panic" THEN CollectCommandsSkip(toks, i + 1, acc)
             ELSE CollectCommandsSkip(toks, i + 1, Append(acc, c.val))

WireNewSkip(cmds_str) == CollectCommandsSkip(Split(cmds_str), 1, <<>>)

\* Wire::new: Ok(cmds), or the panic that ended construction
WireNew(cmds_str) == CollectCommands(Split(cmds_str), 1, <<>>)

RECURSIVE TraceLoop(_, _, _, _)
TraceLoop(cmds, i, current, cmd_coords) ==
    IF i > Len(cmds) THEN cmd_coords
    ELSE LET new_coords == Coords(cmds[i], current)
         IN  TraceLoop(cmds, i + 1,
                       IF Len(new_coords) > 0 THEN new_coords[Len(new_coords)]
                                              ELSE current,
                       cmd_coords \o new_coords)

Trace(cmds, st) == TraceLoop(cmds, 1, st, <<>>)

RECURSIVE TraceCornersLoop(_, _, _, _)
TraceCornersLoop(cmds, i, current, cnr_coords) ==
    IF i > Len(cmds) THEN cnr_coords
    ELSE LET new_coord == LastCoord(cmds[i], current)
         IN  TraceCornersLoop(cmds, i + 1, new_coord,
                              Append(cnr_coords, CornerPair(current, new_coord)))

\* a variant of TraceCornersLoop that never advances the cursor
RECURSIVE TraceCornersLoopNoAdvance(_, _, _, _)
TraceCornersLoopNoAdvance(cmds, i, current, cnr_coords) ==
    IF i > Len(cmds) THEN cnr_coords
    ELSE LET new_coord == LastCoord(cmds[i], current)
         IN  TraceCornersLoopNoAdvance(cmds, i + 1, current,
                              Append(cnr_coords, CornerPair(current, new_coord)))

TraceCornersNoAdvance(cmds, st) == TraceCornersLoopNoAdvance(cmds, 1, st, <<>>)

TraceCorners(cmds, st) == TraceCornersLoop(cmds, 1, st, <<>>)

\* the nested loops of crossovers laid out in the order they run: for each
\* cpi = this[i] in turn, each cpj = other[j] in turn, with the result of
\* cpi.intersection(cpj)
CrossoversLoop(this, other) ==
    LET m == Len(other)
    IN  [k \in 1..(Len(this) * m) |->
            LET cpi == this[((k - 1) \div m) + 1]
                cpj == other[((k - 1) % m) + 1]
            IN  [cpi |-> cpi, cpj |-> cpj, hit |-> Intersection(cpi, cpj)]]

\* the iterations that found Some(coord)
IsHit(it) == it.hit # None

\* the iterations that print: either segment has both ends on y = 0
OnY0(it) ==
    \/ (it.cpi[1].y = 0 /\ it.cpi[2].y = 0)
    \/ (it.cpj[1].y = 0 /\ it.cpj[2].y = 0)

\* yields the crossovers pushed and the lines printed
CrossoversRun(self, other) ==
    LET hits    == SelectSeq(CrossoversLoop(TraceCorners(self, ORIGIN),
                                            TraceCorners(other, ORIGIN)), IsHit)
        printed == SelectSeq(hits, OnY0)
    IN  [all |-> [k \in 1..Len(hits) |-> hits[k].hit[1]],
         out |-> [k \in 1..Len(printed) |->
                     [cpi |-> printed[k].cpi, cpj |-> printed[k].cpj,
                      coord |-> printed[k].hit[1]]]]

\* Wire::crossovers: the returned Vec<Coord>
Crossovers(self, other) == CrossoversRun(self, other).all

\* Wire::crossovers: the lines it prints
CrossoversPrinted(self, other) == CrossoversRun(self, other).out

\* the inner loop of steps_to_crossover over cmd.coords(current):
\* count += 1 for each coordinate, returning at the first one equal to point
StepsInner(cs, k, count, pt) ==
    LET hits == {j \in k..Len(cs) : cs[j] = pt}
    IN  IF hits = {} THEN [found |-> FALSE, count |-> count + (Len(cs) + 1 - k)]
        ELSE LET j == CHOOSE h \in hits : \A g \in hits : h <= g
             IN  [found |-> TRUE, count |-> count + (j + 1 - k)]

\* the outer loop of steps_to_crossover over self.cmds
RECURSIVE StepsLoop(_, _, _, _, _)
StepsLoop(cmds, i, current, count, pt) ==
    IF i > Len(cmds) THEN Err("the crossover was never reached")
    ELSE LET cs == Coords(cmds[i], current)
             r  == StepsInner(cs, 1, count, pt)
         IN  IF r.found THEN Ok(r.count)
             ELSE IF Len(cs) = 0
                  THEN Panic("unreachable: a last coordinate wasn't returned")
                  ELSE StepsLoop(cmds, i + 1, cs[Len(cs)], r.count, pt)

\* a variant of steps_to_crossover without the membership check
StepsToCrossoverUnchecked(self, other, pt) == StepsLoop(self, 1, ORIGIN, 0, pt)

\* a variant of steps_to_crossover that counts the origin as step 1
StepsToCrossoverFromOne(self, other, pt) ==
    IF ~SeqContains(Crossovers(self, other), pt)
    THEN Err("point not a crossover")
    ELSE StepsLoop(self, 1, ORIGIN, 1, pt)

StepsToCrossover(self, other, pt) ==
    IF ~SeqContains(Crossovers(self, other), pt)
    THEN Err("point not a crossover")
    ELSE StepsLoop(self, 1, ORIGIN, 0, pt)

-----------------------------------------------------------------------------
(* part1 and part2 *)

\* Iterator::min over a sequence of integers
RECURSIVE MinFold(_, _, _)
MinFold(s, i, best) ==
    IF i > Len(s) THEN best
    ELSE MinFold(s, i + 1, IF best = None \/ s[i] < best[1] THEN Some(s[i]) ELSE best)

\* a variant of IterMin that keeps the first element
IterFirst(s) == IF Len(s) = 0 THEN None ELSE Some(s[1])

IterMin(s) == MinFold(s, 1, None)

\* part1 on the two ingested lines
Part1(lines) ==
    LET w1 == WireNew(lines[1])
    IN  IF w1.kind = "panic" THEN w1
        ELSE LET w2 == WireNew(lines[2])
             IN  IF w2.kind = "panic" THEN w2
                 ELSE LET cos == Crossovers(w1.val, w2.val)
                      IN  Ok(IterMin([i \in 1..Len(cos) |->
                                         AbsI(cos[i].x) + AbsI(cos[i].y)]))

\* what part1 prints: the lines of its one call of crossovers
Part1Printed(lines) ==
    LET w1 == WireNew(lines[1])
        w2 == WireNew(lines[2])
    IN  IF w1.kind = "panic" \/ w2.kind = "panic" THEN <<>>
        ELSE CrossoversPrinted(w1.val, w2.val)

\* the lazy zip / map / min of part2: for each crossover in turn, the steps of
\* wire one, the steps of wire two, then both unwrapped and added
RECURSIVE Part2Loop(_, _, _, _, _)
Part2Loop(one, two, cos, i, acc) ==
    IF i > Len(cos) THEN acc
    ELSE LET d1   == StepsToCrossover(one, two, cos[i])
             out1 == acc.out \o CrossoversPrinted(one, two)
         IN  IF d1.kind = "panic" THEN [res |-> d1, best |-> acc.best, out |-> out1]
             ELSE LET d2   == StepsToCrossover(two, one, cos[i])
                      out2 == out1 \o CrossoversPrinted(two, one)
                  IN  IF d2.kind = "panic"
                      THEN [res |-> d2, best |-> acc.best, out |-> out2]
                      ELSE IF d1.kind = "err" \/ d2.kind = "err"
                      THEN [res |-> Panic("unwrap on Err"), best |-> acc.best,
                            out |-> out2]
                      ELSE LET d == d1.val + d2.val
                           IN  Part2Loop(one, two, cos, i + 1,
                                   [res  |-> acc.res,
                                    best |-> IF acc.best = None \/ d < acc.best[1]
                                             THEN Some(d) ELSE acc.best,
                                    out  |-> out2])

Part2Run(lines) ==
    LET w1 == WireNew(lines[1])
    IN  IF w1.kind = "panic" THEN [res |-> w1, out |-> <<>>]
        ELSE LET w2 == WireNew(lines[2])
             IN  IF w2.kind = "panic" THEN [res |-> w2, out |-> <<>>]
                 ELSE LET cos == Crossovers(w1.val, w2.val)
                          r   == Part2Loop(w1.val, w2.val, cos, 1,
                                           [res  |-> Ok(0), best |-> None,
                                            out  |-> CrossoversPrinted(w1.val, w2.val)])
                      IN  IF r.res.kind = "panic" THEN [res |-> r.res, out |-> r.out]
                          ELSE IF r.best = None
                          THEN [res |-> Err("no distance returned"), out |-> r.out]
                          ELSE [res |-> Ok(r.best[1]), out |-> r.out]

\* part2 on the two ingested lines: Ok(d), Err(message), or a panic
Part2(lines) == Part2Run(lines).res

Part2Printed(lines) == Part2Run(lines).out

-----------------------------------------------------------------------------
(* Display: the text of a Command is its letter followed by its count *)

RECURSIVE DecimalText(_)
DecimalText(n) ==
    IF n < 10 THEN <<Digits[n + 1]>>
    ELSE Append(DecimalText(n \div 10), Digits[(n % 10) + 1])

DirectionText(d) ==
    CASE d = "Up" -> "U" [] d = "Down" -> "D" [] d = "Left" -> "L" [] d = "Right" -> "R"

CommandText(cmd) == <<DirectionText(cmd.dir)>> \o DecimalText(cmd.count)

\* a line of the input file: the command texts separated by commas
RECURSIVE JoinComma(_, _)
JoinComma(toks, i) ==
    IF i > Len(toks) THEN <<>>
    ELSE IF i = Len(toks) THEN toks[i]
    ELSE toks[i] \o <<",">> \o JoinComma(toks, i + 1)

WireText(cmds) == JoinComma([i \in 1..Len(cmds) |-> CommandText(cmds[i])], 1)

-----------------------------------------------------------------------------
(* Inputs *)

Dists == 0..MaxDist

Commands == {Command(d, n) : d \in Direction, n \in Dists}

\* every wire of 1..MaxCmds commands with distances 0..MaxDist
Wires == UNION {[1..k -> Commands] : k \in 1..MaxCmds}

U(n) == Command("Up", n)
D(n) == Command("Down", n)
L(n) == Command("Left", n)
R(n) == Command("Right", n)

\* longer wires paired with every wire of Wires: runs through the origin,
\* loops, revisited points, a command of distance 0
SampleWires ==
    { <<D(1), U(2)>>,
      <<D(1), R(1), U(2), R(2)>>,
      <<U(1), R(3), D(2), L(2), U(2)>>,
      <<L(1), U(1), R(2), D(2), L(2)>>,
      <<R(1), U(0), U(1), L(2), D(2)>>,
      <<R(1), U(2), D(2)>> }

-----------------------------------------------------------------------------
(* Specification Spec: two wires and the queries over them *)

Init ==
    /\ wire_one \in SampleWires
    /\ wire_two \in Wires
    /\ input = <<WireText(wire_one), WireText(wire_two)>>
    /\ cmds_s = <<>>
    /\ cmd_self = Command("Up", 0)
    /\ start = ORIGIN
    /\ point = ORIGIN
    /\ cp_self = CornerPair(ORIGIN, ORIGIN)
    /\ cp_other = CornerPair(ORIGIN, ORIGIN)
    /\ pc = "start"
    /\ ret = None
    /\ stdout = <<>>
    /\ panel = <<<<>>, <<>>>>
    /\ code = <<>>
    /\ ip = 0
    /\ num = 0

\* wire_one.crossovers(&wire_two)
CrossoversStep ==
    /\ pc = "start"
    /\ pc' = "crossovers"
    /\ ret' = Crossovers(wire_one, wire_two)
    /\ stdout' = stdout \o CrossoversPrinted(wire_one, wire_two)
    /\ UNCHANGED <<panel, code, ip, num, cmd_self, cmds_s, input, wire_one, wire_two, start, point, cp_self, cp_other>>

\* part1 on the two lines
Part1Step ==
    /\ pc = "start"
    /\ pc' = "part1"
    /\ ret' = Part1(input)
    /\ stdout' = stdout \o Part1Printed(input)
    /\ UNCHANGED <<panel, code, ip, num, cmd_self, cmds_s, input, wire_one, wire_two, start, point, cp_self, cp_other>>

\* part2 on the two lines
Part2Step ==
    /\ pc = "start"
    /\ pc' = "part2"
    /\ ret' = Part2(input)
    /\ stdout' = stdout \o Part2Printed(input)
    /\ UNCHANGED <<panel, code, ip, num, cmd_self, cmds_s, input, wire_one, wire_two, start, point, cp_self, cp_other>>

Next == CrossoversStep \/ Part1Step \/ Part2Step

Spec == Init /\ [][Next]_vars

-----------------------------------------------------------------------------
(* Specification SpecSteps: two wires and one steps_to_crossover query *)

SeqRange(s) == {s[i] : i \in 1..Len(s)}

\* the points asked about: the origin, every point wire_one passes, every
\* crossover, and the points one step beside the origin
StepPoints ==
    {ORIGIN, Coord(1, 1), Coord(0 - 1, 0)}
        \cup SeqRange(Trace(wire_one, ORIGIN))
        \cup SeqRange(Crossovers(wire_one, wire_two))

\* wire_one.steps_to_crossover(&wire_two, p)
StepsToCrossoverStep ==
    /\ pc = "start"
    /\ \E p \in StepPoints :
          /\ point' = p
          /\ ret' = StepsToCrossover(wire_one, wire_two, p)
    /\ pc' = "steps_to_crossover"
    /\ stdout' = stdout \o CrossoversPrinted(wire_one, wire_two)
    /\ UNCHANGED <<panel, code, ip, num, cmd_self, cmds_s, input, wire_one, wire_two, start, cp_self, cp_other>>

NextSteps == StepsToCrossoverStep

SpecSteps == Init /\ [][NextSteps]_vars

-----------------------------------------------------------------------------
(* Specification SpecTrace: one wire traced from a start coordinate *)

Starts == {ORIGIN, Coord(1, 0 - 2)}

InitTrace ==
    /\ wire_one \in Wires
    /\ start \in Starts
    /\ wire_two = <<>>
    /\ input = <<>>
    /\ cmds_s = <<>>
    /\ cmd_self = Command("Up", 0)
    /\ point = ORIGIN
    /\ cp_self = CornerPair(ORIGIN, ORIGIN)
    /\ cp_other = CornerPair(ORIGIN, ORIGIN)
    /\ pc = "start"
    /\ ret = None
    /\ stdout = <<>>
    /\ panel = <<<<>>, <<>>>>
    /\ code = <<>>
    /\ ip = 0
    /\ num = 0

\* cmd_self.coords(start), cmd_self any command of wire_one
CoordsStep ==
    /\ pc = "start"
    /\ \E i \in 1..Len(wire_one) :
          /\ cmd_self' = wire_one[i]
          /\ ret' = Coords(wire_one[i], start)
    /\ pc' = "coords"
    /\ UNCHANGED <<panel, code, ip, num, cmds_s, input, wire_one, wire_two, start, point, cp_self, cp_other, stdout>>

\* wire_one.trace(start)
TraceStep ==
    /\ pc = "start"
    /\ pc' = "trace"
    /\ ret' = Trace(wire_one, start)
    /\ UNCHANGED <<panel, code, ip, num, cmd_self, cmds_s, input, wire_one, wire_two, start, point, cp_self, cp_other, stdout>>

\* wire_one.trace_corners(start)
TraceCornersStep ==
    /\ pc = "start"
    /\ pc' = "trace_corners"
    /\ ret' = TraceCorners(wire_one, start)
    /\ UNCHANGED <<panel, code, ip, num, cmd_self, cmds_s, input, wire_one, wire_two, start, point, cp_self, cp_other, stdout>>

\* orientation() of the segment trace_corners(start) records for command cmd_self
OrientationStep ==
    /\ pc = "start"
    /\ \E i \in 1..Len(wire_one) :
          /\ cmd_self' = wire_one[i]
          /\ cp_self' = TraceCorners(wire_one, start)[i]
          /\ ret' = Orientation(TraceCorners(wire_one, start)[i])
    /\ pc' = "orientation"
    /\ UNCHANGED <<panel, code, ip, num, cmds_s, input, wire_one, wire_two, start, point, cp_other, stdout>>

NextTrace == CoordsStep \/ TraceStep \/ TraceCornersStep \/ OrientationStep

SpecTrace == InitTrace /\ [][NextTrace]_vars

-----------------------------------------------------------------------------
(* Specification SpecSeg: two axis-aligned CornerPairs *)

XYs == (0 - MaxXY)..MaxXY

GridCoords == {Coord(px, py) : px \in XYs, py \in XYs}

\* every axis-aligned pair of corners on the grid, both directions, the
\* pairs of equal corners included
AxisSegments ==
    {cp \in GridCoords \X GridCoords : cp[1].x = cp[2].x \/ cp[1].y = cp[2].y}

InitSeg ==
    /\ cp_self \in AxisSegments
    /\ cp_other \in AxisSegments
    /\ wire_one = <<>>
    /\ wire_two = <<>>
    /\ input = <<>>
    /\ cmds_s = <<>>
    /\ cmd_self = Command("Up", 0)
    /\ start = ORIGIN
    /\ point = ORIGIN
    /\ pc = "start"
    /\ ret = None
    /\ stdout = <<>>
    /\ panel = <<<<>>, <<>>>>
    /\ code = <<>>
    /\ ip = 0
    /\ num = 0

\* cp_self.intersection(cp_other)
IntersectionStep ==
    /\ pc = "start"
    /\ pc' = "intersection"
    /\ ret' = Intersection(cp_self, cp_other)
    /\ UNCHANGED <<panel, code, ip, num, cmd_self, cmds_s, input, wire_one, wire_two, start, point, cp_self, cp_other, stdout>>

NextSeg == IntersectionStep

SpecSeg == InitSeg /\ [][NextSeg]_vars

-----------------------------------------------------------------------------
(* Specification SpecParse: a text handed to Wire::new *)

\* tokens: well formed ones, a '+' sign, leading zeros, a wrong or missing
\* letter, an empty token, an empty, signed or non-numeric remainder, and
\* the smallest count that does not fit u32
Tokens ==
    { <<"U", "1">>, <<"D", "2">>, <<"L", "0">>, <<"R", "1", "2">>,
      <<"D", "0", "0", "7">>, <<"U", "+", "1">>,
      <<"X", "1">>, <<"1", "U">>, <<>>, <<"U">>, <<"U", "-", "1">>,
      <<"R", "1", "a">>, <<"L", "+">>,
      <<"U", "4", "2", "9", "4", "9", "6", "7", "2", "9", "6">> }

Texts == {JoinComma(ts, 1) : ts \in UNION {[1..k -> Tokens] : k \in 1..MaxTokens}}

InitParse ==
    /\ cmds_s \in Texts
    /\ cmd_self = Command("Up", 0)
    /\ wire_one = <<>>
    /\ wire_two = <<>>
    /\ input = <<>>
    /\ start = ORIGIN
    /\ point = ORIGIN
    /\ cp_self = CornerPair(ORIGIN, ORIGIN)
    /\ cp_other = CornerPair(ORIGIN, ORIGIN)
    /\ pc = "start"
    /\ ret = None
    /\ stdout = <<>>
    /\ panel = <<<<>>, <<>>>>
    /\ code = <<>>
    /\ ip = 0
    /\ num = 0

\* Wire::new(cmds_s): wire_one is the Wire built, if any
WireNewStep ==
    /\ pc = "start"
    /\ pc' = "wire_new"
    /\ ret' = WireNew(cmds_s)
    /\ wire_one' = IF WireNew(cmds_s).kind = "ok" THEN WireNew(cmds_s).val ELSE wire_one
    /\ UNCHANGED <<panel, code, ip, num, cmd_self, cmds_s, input, wire_two, start, point, cp_self, cp_other, stdout>>

NextParse == WireNewStep

SpecParse == InitParse /\ [][NextParse]_vars

-----------------------------------------------------------------------------
(* Properties *)

\* v lies strictly between a and b, whichever is the larger
StrictlyBetween(v, a, b) == (a < v /\ v < b) \/ (b < v /\ v < a)

SharesX(cp) == cp[1].x = cp[2].x

SharesY(cp) == cp[1].y = cp[2].y

\* h runs along a line of constant y, v along a line of constant x, and they
\* cross at a point interior to both
CrossesInside(h, v) ==
    /\ SharesY(h)
    /\ SharesX(v)
    /\ StrictlyBetween(v[1].x, h[1].x, h[2].x)
    /\ StrictlyBetween(h[1].y, v[1].y, v[2].y)

Manhattan(p) == AbsI(p.x) + AbsI(p.y)

SetMin(S) == CHOOSE m \in S : \A n \in S : m <= n

\* the 1-based index of the first occurrence of p in t (0 when there is none)
FirstIndex(t, p) ==
    IF \E k \in 1..Len(t) : t[k] = p
    THEN SetMin({k \in 1..Len(t) : t[k] = p})
    ELSE 0

\* st moved k unit steps in direction d
Displace(st, d, k) ==
    CASE d = "Up"    -> Coord(st.x, st.y + k)
      [] d = "Down"  -> Coord(st.x, st.y - k)
      [] d = "Left"  -> Coord(st.x - k, st.y)
      [] d = "Right" -> Coord(st.x + k, st.y)

\* the total distance of the first n commands
RECURSIVE SumCounts(_, _)
SumCounts(cmds, n) == IF n = 0 THEN 0 ELSE SumCounts(cmds, n - 1) + cmds[n].count

\* the position after the first n commands, from st
RECURSIVE PosAfter(_, _, _)
PosAfter(cmds, n, st) ==
    IF n = 0 THEN st
    ELSE Displace(PosAfter(cmds, n - 1, st), cmds[n].dir, cmds[n].count)

\* C1: the list returned by wire_one.crossovers(wire_two) never contains (0,0)
C1_OriginNeverCrossover ==
    pc = "crossovers" => ~SeqContains(ret, ORIGIN)

\* C2: s.intersection(t) is Some exactly when one segment has constant y, the
\* other constant x, and each one's fixed coordinate lies strictly between the
\* other's endpoints; the point is (the constant x, the constant y); in every
\* other case it is None; t.intersection(s) gives the same answer
C2_IntersectionStrictInterior ==
    pc = "intersection" =>
        /\ CrossesInside(cp_self, cp_other)
              => ret = Some(Coord(cp_other[1].x, cp_self[1].y))
        /\ CrossesInside(cp_other, cp_self)
              => ret = Some(Coord(cp_self[1].x, cp_other[1].y))
        /\ (~CrossesInside(cp_self, cp_other) /\ ~CrossesInside(cp_other, cp_self))
              => ret = None
        /\ ret = Intersection(cp_other, cp_self)

\* C2 witness: a vertical receiver written top to bottom is crossed by a
\* horizontal argument written right to left
C2_Witness ==
    /\ pc = "intersection"
    /\ ret # None
    /\ SharesX(cp_self) /\ cp_self[1].y > cp_self[2].y
    /\ SharesY(cp_other) /\ cp_other[1].x > cp_other[2].x

\* C3: trace_corners returns one segment per command, the first starts at the
\* start coordinate, and each segment ends where the next one starts
C3_CornersChain ==
    pc = "trace_corners" =>
        /\ Len(ret) = Len(wire_one)
        /\ (Len(ret) > 0 => ret[1][1] = start)
        /\ \A i \in 1..(Len(ret) - 1) : ret[i][2] = ret[i + 1][1]

\* C3 witness: a wire of two moving commands traced from a start other than
\* the origin
C3_Witness ==
    /\ pc = "trace_corners"
    /\ start # ORIGIN
    /\ Len(ret) = 2
    /\ ret[1][2] # start
    /\ ret[2][2] # ret[2][1]

\* C4 as stated: for every segment of trace_corners, distance 0 included,
\* orientation() is Horizontal iff the endpoints share y and Vertical iff
\* they share x, and they never share both
C4_OrientationAsStated ==
    pc = "orientation" =>
        /\ ret = "Horizontal" <=> SharesY(cp_self)
        /\ ret = "Vertical" <=> SharesX(cp_self)
        /\ ~(SharesX(cp_self) /\ SharesY(cp_self))

\* C4 amended: for a segment recorded for a command of positive distance,
\* orientation() is Horizontal iff the endpoints share y, Vertical iff they
\* share x, and exactly one holds; for a command of distance 0 the endpoints
\* are equal (they share both) and orientation() is Vertical
C4_Orientation ==
    pc = "orientation" =>
        IF cmd_self.count > 0
        THEN /\ ret = "Horizontal" <=> SharesY(cp_self)
             /\ ret = "Vertical" <=> SharesX(cp_self)
             /\ ~(SharesX(cp_self) /\ SharesY(cp_self))
        ELSE /\ cp_self[1] = cp_self[2]
             /\ ret = "Vertical"

\* C4 witness: the segment of a Left command of distance 0, away from the
\* origin
C4_Witness ==
    /\ pc = "orientation"
    /\ cmd_self = Command("Left", 0)
    /\ cp_self[1] # ORIGIN
    /\ ret = "Vertical"

\* C5: part1 returns the minimum of |x| + |y| over the crossover set, and
\* None exactly when the crossover set is empty
C5_Part1Minimum ==
    pc = "part1" =>
        LET dists == {Manhattan(p) : p \in SeqRange(Crossovers(wire_one, wire_two))}
        IN  /\ ret.kind = "ok"
            /\ dists = {} <=> ret.val = None
            /\ dists # {} => ret.val = Some(SetMin(dists))

\* C5 witness: several crossovers, and the nearest one is not the first found
C5_Witness ==
    /\ pc = "part1"
    /\ ret.kind = "ok"
    /\ ret.val # None
    /\ Len(Crossovers(wire_one, wire_two)) >= 2
    /\ Manhattan(Crossovers(wire_one, wire_two)[1]) > ret.val[1]

\* C6: with at least one crossover part2 returns the minimum over the
\* crossovers p of steps(wire_one, p) + steps(wire_two, p); with none it
\* returns Err
C6_Part2Minimum ==
    pc = "part2" =>
        LET cos  == SeqRange(Crossovers(wire_one, wire_two))
            sums == {FirstIndex(Trace(wire_one, ORIGIN), p)
                        + FirstIndex(Trace(wire_two, ORIGIN), p) : p \in cos}
        IN  IF cos = {} THEN ret.kind = "err"
                        ELSE ret = Ok(SetMin(sums))

\* C7: for a point that is not in wire_one.crossovers(wire_two),
\* steps_to_crossover returns Err, also when the point lies on wire_one's path
C7_NonCrossoverIsErr ==
    (pc = "steps_to_crossover" /\ point \notin SeqRange(Crossovers(wire_one, wire_two)))
        => ret.kind = "err"

\* C7 witness: the point lies on wire_one's path and on wire_two's path, but
\* is no crossover, and the answer is Err
C7_Witness ==
    /\ pc = "steps_to_crossover"
    /\ point \notin SeqRange(Crossovers(wire_one, wire_two))
    /\ point \in SeqRange(Trace(wire_one, ORIGIN))
    /\ point \in SeqRange(Trace(wire_two, ORIGIN))
    /\ ret.kind = "err"

\* C8: when steps_to_crossover returns Ok(n), n is the 1-based index of the
\* first occurrence of the point in wire_one's full trace from the origin
C8_StepsIsFirstIndex ==
    (pc = "steps_to_crossover" /\ ret.kind = "ok") =>
        LET t == Trace(wire_one, ORIGIN)
        IN  /\ ret.val \in 1..Len(t)
            /\ t[ret.val] = point
            /\ \A k \in 1..(ret.val - 1) : t[k] # point

\* C8 witness: Ok(n) for a crossover that wire_one passes more than once
C8_Witness ==
    /\ pc = "steps_to_crossover"
    /\ ret.kind = "ok"
    /\ ret.val > 1
    /\ Cardinality({k \in 1..Len(Trace(wire_one, ORIGIN)) :
                       Trace(wire_one, ORIGIN)[k] = point}) >= 2

\* C9: coords(start) yields exactly count coordinates, the start moved by
\* 1, 2, ..., count steps in the command's direction, in that order; trace
\* is the concatenation of these, each command starting where the previous
\* one ended
C9_CoordsAndTrace ==
    /\ pc = "coords" =>
          /\ Len(ret) = cmd_self.count
          /\ \A k \in 1..cmd_self.count : ret[k] = Displace(start, cmd_self.dir, k)
    /\ pc = "trace" =>
          /\ Len(ret) = SumCounts(wire_one, Len(wire_one))
          /\ \A i \in 1..Len(wire_one) : \A k \in 1..wire_one[i].count :
                ret[SumCounts(wire_one, i - 1) + k]
                    = Displace(PosAfter(wire_one, i - 1, start), wire_one[i].dir, k)

\* C9 witness: the trace of a Down command followed by a Left command, both
\* of distance 2, from a start other than the origin
C9_Witness ==
    /\ pc = "trace"
    /\ start # ORIGIN
    /\ wire_one = <<Command("Down", 2), Command("Left", 2)>>
    /\ Len(ret) = 4

\* the tokens of a text: the pieces between its commas
CommaAt(s) == {i \in 1..Len(s) : s[i] = ","}

NumTokens(s) == Cardinality(CommaAt(s)) + 1

NthComma(s, n) ==
    CHOOSE i \in CommaAt(s) : Cardinality({c \in CommaAt(s) : c < i}) = n - 1

TokenAt(s, j) ==
    SubSeq(s,
           IF j = 1 THEN 1 ELSE NthComma(s, j - 1) + 1,
           IF j = NumTokens(s) THEN Len(s) ELSE NthComma(s, j) - 1)

Letters == {"U", "D", "L", "R"}

DigitsOnly(t) == Len(t) >= 1 /\ \A i \in 1..Len(t) : IsDigit(t[i])

\* a remainder without its optional '+' sign
Unsigned(r) == IF Len(r) >= 1 /\ r[1] = "+" THEN Tail(r) ELSE r

\* a digit string without its leading zeros
StripZeros(d) ==
    IF \A i \in 1..Len(d) : d[i] = "0"
    THEN <<"0">>
    ELSE SubSeq(d, SetMin({i \in 1..Len(d) : d[i] # "0"}), Len(d))

U32MaxText == <<"4", "2", "9", "4", "9", "6", "7", "2", "9", "5">>

\* the number written by the digit string d is at most 4294967295
FitsU32(d) ==
    LET z == StripZeros(d)
    IN  \/ Len(z) < Len(U32MaxText)
        \/ /\ Len(z) = Len(U32MaxText)
           /\ \/ z = U32MaxText
              \/ \E i \in 1..Len(z) :
                    /\ DigitVal(z[i]) < DigitVal(U32MaxText[i])
                    /\ \A j \in 1..(i - 1) : z[j] = U32MaxText[j]

\* a letter followed by a decimal non-negative integer of any size (read
\* generously: an explicit '+' sign is allowed)
WellFormedAsStated(tok) ==
    Len(tok) >= 2 /\ tok[1] \in Letters /\ DigitsOnly(Unsigned(Tail(tok)))

\* a letter, an optional '+', and decimal digits of a number that fits u32
WellFormed(tok) ==
    /\ Len(tok) >= 2
    /\ tok[1] \in Letters
    /\ DigitsOnly(Unsigned(Tail(tok)))
    /\ FitsU32(Unsigned(Tail(tok)))

\* cmds are the commands of the tokens of s, in order
CommandsOfTokens(cmds, s) ==
    /\ Len(cmds) = NumTokens(s)
    /\ \A j \in 1..NumTokens(s) :
          /\ DirectionText(cmds[j].dir) = TokenAt(s, j)[1]
          /\ DecimalText(cmds[j].count) = StripZeros(Unsigned(Tail(TokenAt(s, j))))

\* C10 as stated: Wire::new yields the commands of the tokens when every
\* token is a letter followed by a decimal non-negative integer, and fails,
\* producing no Wire, when any token is not
C10_WireNewAsStated ==
    pc = "wire_new" =>
        IF \A j \in 1..NumTokens(cmds_s) : WellFormedAsStated(TokenAt(cmds_s, j))
        THEN ret.kind = "ok" /\ wire_one = ret.val /\ CommandsOfTokens(ret.val, cmds_s)
        ELSE ret.kind = "panic" /\ wire_one = <<>>

\* C10 amended: Wire::new yields the commands of the tokens when every token
\* is one of U, D, L, R followed by an optional '+' and one or more decimal
\* digits of a number no greater than 4294967295; in every other case it
\* fails and no Wire, not even a partial one, is produced
C10_WireNew ==
    pc = "wire_new" =>
        IF \A j \in 1..NumTokens(cmds_s) : WellFormed(TokenAt(cmds_s, j))
        THEN ret.kind = "ok" /\ wire_one = ret.val /\ CommandsOfTokens(ret.val, cmds_s)
        ELSE ret.kind = "panic" /\ wire_one = <<>>

\* C10 witness: a text whose first token parses and whose second does not
C10_Witness ==
    /\ pc = "wire_new"
    /\ NumTokens(cmds_s) = 2
    /\ WellFormed(TokenAt(cmds_s, 1))
    /\ ~WellFormed(TokenAt(cmds_s, 2))
    /\ ret.kind = "panic"

-----------------------------------------------------------------------------
(* Specification SpecScenario: the documented wire pairs and the queries   *)
(* over them                                                               *)

\* R8,U5,L5,D3 / U7,R6,D4,L4
SmallPair ==
    << <<R(8), U(5), L(5), D(3)>>,
       <<U(7), R(6), D(4), L(4)>> >>

\* src/test.txt as the tests of part1 and part2 read it
ReferencePairOne ==
    << <<R(75), D(30), R(83), U(83), L(12), D(49), R(71), U(7), L(72)>>,
       <<U(62), R(66), U(55), R(34), D(71), R(55), D(58), R(83)>> >>

\* src/test2.txt
ReferencePairTwo ==
    << <<R(98), U(47), R(26), D(63), R(33), U(87), L(62), D(20), R(33), U(53), R(51)>>,
       <<U(98), R(91), D(20), R(16), D(67), R(40), U(7), R(15), U(6), R(7)>> >>

ScenarioPairs == {SmallPair, ReferencePairOne, ReferencePairTwo}

InitScenario ==
    /\ \E pr \in ScenarioPairs :
          /\ wire_one = pr[1]
          /\ wire_two = pr[2]
    /\ input = <<WireText(wire_one), WireText(wire_two)>>
    /\ cmds_s = <<>>
    /\ cmd_self = Command("Up", 0)
    /\ start = ORIGIN
    /\ point = ORIGIN
    /\ cp_self = CornerPair(ORIGIN, ORIGIN)
    /\ cp_other = CornerPair(ORIGIN, ORIGIN)
    /\ pc = "start"
    /\ ret = None
    /\ stdout = <<>>
    /\ panel = <<<<>>, <<>>>>
    /\ code = <<>>
    /\ ip = 0
    /\ num = 0

NextScenario == CrossoversStep \/ Part1Step \/ Part2Step \/ StepsToCrossoverStep

SpecScenario == InitScenario /\ [][NextScenario]_vars

\* the two wires are the pair pr
WiresAre(pr) == wire_one = pr[1] /\ wire_two = pr[2]

\* C11: for the wires R8,U5,L5,D3 and U7,R6,D4,L4 the crossovers contain
\* (3,3) and (6,5), and part1 answers 6
C11_SmallScenario ==
    WiresAre(SmallPair) =>
        /\ pc = "crossovers" =>
              /\ SeqContains(ret, Coord(3, 3))
              /\ SeqContains(ret, Coord(6, 5))
        /\ pc = "part1" => ret = Ok(Some(6))

C11_Witness ==
    /\ WiresAre(SmallPair)
    /\ pc = "part1"
    /\ input = << <<"R", "8", ",", "U", "5", ",", "L", "5", ",", "D", "3">>,
                  <<"U", "7", ",", "R", "6", ",", "D", "4", ",", "L", "4">> >>
    /\ ret = Ok(Some(6))

\* C12: on the two reference wire pairs part1 answers 159 and 135, and
\* part2 answers 610 and 410
C12_ReferenceAnswers ==
    /\ (WiresAre(ReferencePairOne) /\ pc = "part1") => ret = Ok(Some(159))
    /\ (WiresAre(ReferencePairOne) /\ pc = "part2") => ret = Ok(610)
    /\ (WiresAre(ReferencePairTwo) /\ pc = "part1") => ret = Ok(Some(135))
    /\ (WiresAre(ReferencePairTwo) /\ pc = "part2") => ret = Ok(410)

C12_Witness ==
    /\ WiresAre(ReferencePairTwo)
    /\ pc = "part2"
    /\ ret = Ok(410)

-----------------------------------------------------------------------------
(* IntCode (src/day2/src/lib.rs): code is a Vec<u64>, positions count from  *)
(* 0, so self.code[p] is c[p + 1]                                           *)

At(c, p) == c[p + 1]

\* a variant of add that takes its first two arguments as the values to add
IntCodeAddImmediate(c, pos1, pos2, pos3) ==
    IF pos1 >= Len(c) \/ pos2 >= Len(c) \/ pos3 >= Len(c)
    THEN Panic("index out of bounds")
    ELSE Ok([c EXCEPT ![pos3 + 1] = pos1 + pos2])

\* IntCode::add: the two reads, then the write; an index past the end panics
IntCodeAdd(c, pos1, pos2, pos3) ==
    IF pos1 >= Len(c) \/ pos2 >= Len(c) \/ pos3 >= Len(c)
    THEN Panic("index out of bounds")
    ELSE Ok([c EXCEPT ![pos3 + 1] = At(c, pos1) + At(c, pos2)])

\* IntCode::mul
IntCodeMul(c, pos1, pos2, pos3) ==
    IF pos1 >= Len(c) \/ pos2 >= Len(c) \/ pos3 >= Len(c)
    THEN Panic("index out of bounds")
    ELSE Ok([c EXCEPT ![pos3 + 1] = At(c, pos1) * At(c, pos2)])

\* IntCode::perform at position pos: Ok([proceed, code]) or a panic.
\* poss holds the cells pos + 1 .. min(pos + 4, len) - 1, read before the
\* opcode is looked at; the slice panics when pos + 1 is past the end
Perform(c, pos) ==
    IF pos + 1 > Len(c) THEN Panic("slice index starts past the end")
    ELSE LET poss == [k \in 1..(MinI(pos + 4, Len(c)) - (pos + 1)) |-> At(c, pos + k)]
             op   == At(c, pos)
         IN  IF op = 1 \/ op = 2
             THEN IF Len(poss) < 3 THEN Panic("index out of bounds")
                  ELSE LET r == IF op = 1 THEN IntCodeAdd(c, poss[1], poss[2], poss[3])
                                          ELSE IntCodeMul(c, poss[1], poss[2], poss[3])
                       IN  IF r.kind = "panic" THEN r
                           ELSE Ok([proceed |-> TRUE, code |-> r.val])
             ELSE IF op = 99 THEN Ok([proceed |-> FALSE, code |-> c])
             ELSE Panic("non opcode encountered")

-----------------------------------------------------------------------------
(* Specification SpecIntCode: one IntCode run by execute, an iteration of   *)
(* its loop at a time                                                       *)

\* operands of the generated first instruction range over 0..MaxAddr
MaxAddr == 4

Addrs == 0..MaxAddr

\* opcodes of the generated first instruction: add, mul, halt, and a non opcode
Opcodes == {1, 2, 3, 99}

\* what follows the first instruction, from position 4 on
SampleTails ==
    { <<99>>,
      <<2, 0, 0, 0, 99>>,
      <<99, 5, 6, 0, 99>>,
      <<1, 0, 4, 8, 99>>,
      <<1, 0, 0>>,
      <<>> }

\* the programs of the tests perform_part1_test_step1 and
\* few_more_small_programs whose operands exceed MaxAddr
TestPrograms ==
    { <<1, 9, 10, 3, 2, 3, 11, 0, 99, 30, 40, 50>>,
      <<2, 4, 4, 5, 99, 0>> }

Programs ==
    {<<op, a, b, c>> \o tail :
        op \in Opcodes, a \in Addrs, b \in Addrs, c \in Addrs, tail \in SampleTails}
      \cup TestPrograms

InitIntCode ==
    /\ code \in Programs
    /\ ip = 0
    /\ pc = "start"
    /\ ret = None
    /\ stdout = <<>>
    /\ num = 0
    /\ panel = <<<<>>, <<>>>>
    /\ wire_one = <<>>
    /\ wire_two = <<>>
    /\ input = <<>>
    /\ cmds_s = <<>>
    /\ cmd_self = Command("Up", 0)
    /\ start = ORIGIN
    /\ point = ORIGIN
    /\ cp_self = CornerPair(ORIGIN, ORIGIN)
    /\ cp_other = CornerPair(ORIGIN, ORIGIN)

\* execute is entered: let mut i = 0
ExecuteStart ==
    /\ pc = "start"
    /\ pc' = "execute"
    /\ ip' = 0
    /\ UNCHANGED <<code, ret, stdout, num, panel, cmd_self, cmds_s, input, wire_one,
                   wire_two, start, point, cp_self, cp_other>>

\* one iteration of the loop of execute: perform(i), then i += 4, or break
\* and return self.code[0]
ExecuteStep ==
    /\ pc = "execute"
    /\ LET r == Perform(code, ip)
       IN  IF r.kind = "panic"
           THEN pc' = "panic" /\ ret' = r /\ UNCHANGED <<code, ip>>
           ELSE IF r.val.proceed
           THEN pc' = "execute" /\ code' = r.val.code /\ ip' = ip + 4 /\ UNCHANGED ret
           ELSE pc' = "done" /\ ret' = Ok(At(code, 0)) /\ UNCHANGED <<code, ip>>
    /\ UNCHANGED <<stdout, num, panel, cmd_self, cmds_s, input, wire_one,
                   wire_two, start, point, cp_self, cp_other>>

NextIntCode == ExecuteStart \/ ExecuteStep

SpecIntCode == InitIntCode /\ [][NextIntCode]_vars

\* position p and its three operands lie inside the program, and the
\* operands are positions of the program
CanOperate(c, p) ==
    /\ p + 3 < Len(c)
    /\ At(c, p + 1) < Len(c)
    /\ At(c, p + 2) < Len(c)
    /\ At(c, p + 3) < Len(c)

\* the step the loop takes at position ip, as stated
StepAsStated ==
    /\ (ip < Len(code) /\ At(code, ip) = 99) =>
          /\ pc' = "done"
          /\ code' = code
          /\ ret' = Ok(At(code, 0))
    /\ (CanOperate(code, ip) /\ At(code, ip) = 1) =>
          /\ pc' = "execute"
          /\ ip' = ip + 4
          /\ code' = [code EXCEPT ![At(code, ip + 3) + 1] =
                         At(code, At(code, ip + 1)) + At(code, At(code, ip + 2))]
    /\ (CanOperate(code, ip) /\ At(code, ip) = 2) =>
          /\ pc' = "execute"
          /\ ip' = ip + 4
          /\ code' = [code EXCEPT ![At(code, ip + 3) + 1] =
                         At(code, At(code, ip + 1)) * At(code, At(code, ip + 2))]

\* C13: execute works through positions 0, 4, 8, ...: at an opcode 1 (2) it
\* stores the sum (product) of the cells its first two operands point at
\* into the cell its third operand points at and leaves every other cell
\* alone; at the first 99 it stops, memory untouched, returning code[0]
C13_ExecuteSteps ==
    /\ [](pc = "execute" => ip % 4 = 0)
    /\ [][(pc = "start" => ip' = 0) /\ (pc = "execute" => StepAsStated)]_vars

C13_Witness ==
    /\ pc = "done"
    /\ ip = 8
    /\ code = <<30, 1, 1, 4, 2, 5, 6, 0, 99>>
    /\ ret = Ok(30)

-----------------------------------------------------------------------------
(* The password rule of day4 (src/day4/src/lib.rs)                          *)

\* a variant of is_valid_double_pair that accepts any two adjacent equal
\* digits, however long their run
IsValidAnyRepeat(n) ==
    LET nstr == DecimalText(n)
    IN  /\ \A i \in 1..(Len(nstr) - 1) : DigitVal(nstr[i]) <= DigitVal(nstr[i + 1])
        /\ \E i \in 1..(Len(nstr) - 1) : nstr[i] = nstr[i + 1]

\* the loop of is_valid_double_pair over i (from 1 here), with its locals
\* current, dup_run and has_repeat; characters compare as their digits do
RECURSIVE IsValidDoublePairLoop(_, _, _, _, _)
IsValidDoublePairLoop(nstr, i, current, dup_run, has_repeat) ==
    IF i > Len(nstr) THEN has_repeat
    ELSE IF DigitVal(nstr[i]) < DigitVal(current) THEN FALSE
    ELSE IF i # Len(nstr) /\ nstr[i] = nstr[i + 1]
         THEN IsValidDoublePairLoop(nstr, i + 1, nstr[i],
                                    IF dup_run = 0 THEN 2 ELSE dup_run + 1,
                                    has_repeat)
         ELSE IF dup_run = 2
              THEN IsValidDoublePairLoop(nstr, i + 1, nstr[i], dup_run, TRUE)
              ELSE IsValidDoublePairLoop(nstr, i + 1, nstr[i], 0, has_repeat)

\* is_valid_double_pair(num): num.to_string().chars(), then the loop
IsValidDoublePair(n) == IsValidDoublePairLoop(DecimalText(n), 1, "0", 0, FALSE)

-----------------------------------------------------------------------------
(* Specification SpecDay4: one number and its is_valid_double_pair         *)

\* generated numbers have at most MaxDigits digits, each at most MaxDigit
MaxDigits == 5

MaxDigit == 3

\* the number written with the digits ds
RECURSIVE NumOf(_)
NumOf(ds) ==
    IF Len(ds) = 0 THEN 0
    ELSE NumOf(SubSeq(ds, 1, Len(ds) - 1)) * 10 + ds[Len(ds)]

\* the numbers of the test is_valid_double_pair_works
TestNums == {12345, 123444, 33445, 44344, 122333}

Nums ==
    {NumOf(ds) : ds \in UNION {[1..k -> 0..MaxDigit] : k \in 1..MaxDigits}}
        \cup TestNums

InitDay4 ==
    /\ num \in Nums
    /\ pc = "start"
    /\ ret = None
    /\ stdout = <<>>
    /\ code = <<>>
    /\ ip = 0
    /\ panel = <<<<>>, <<>>>>
    /\ wire_one = <<>>
    /\ wire_two = <<>>
    /\ input = <<>>
    /\ cmds_s = <<>>
    /\ cmd_self = Command("Up", 0)
    /\ start = ORIGIN
    /\ point = ORIGIN
    /\ cp_self = CornerPair(ORIGIN, ORIGIN)
    /\ cp_other = CornerPair(ORIGIN, ORIGIN)

\* is_valid_double_pair(num)
IsValidDoublePairStep ==
    /\ pc = "start"
    /\ pc' = "is_valid_double_pair"
    /\ ret' = IsValidDoublePair(num)
    /\ UNCHANGED <<num, stdout, code, ip, panel, cmd_self, cmds_s, input, wire_one,
                   wire_two, start, point, cp_self, cp_other>>

NextDay4 == IsValidDoublePairStep

SpecDay4 == InitDay4 /\ [][NextDay4]_vars

\* the number of decimal digits of n
RECURSIVE NumDigits(_)
NumDigits(n) == IF n < 10 THEN 1 ELSE 1 + NumDigits(n \div 10)

RECURSIVE Pow10(_)
Pow10(k) == IF k = 0 THEN 1 ELSE 10 * Pow10(k - 1)

\* the i-th decimal digit of n from the left, i in 1..NumDigits(n)
DigitAt(n, i) == (n \div Pow10(NumDigits(n) - i)) % 10

NeverDecreases(n) ==
    \A i \in 1..(NumDigits(n) - 1) : DigitAt(n, i) <= DigitAt(n, i + 1)

\* digits i..j of n are equal and the run cannot be extended on either side
MaximalRun(n, i, j) ==
    /\ \A k \in i..j : DigitAt(n, k) = DigitAt(n, i)
    /\ i = 1 \/ DigitAt(n, i - 1) # DigitAt(n, i)
    /\ j = NumDigits(n) \/ DigitAt(n, j + 1) # DigitAt(n, i)

HasRunOfExactlyTwo(n) == \E i \in 1..(NumDigits(n) - 1) : MaximalRun(n, i, i + 1)

HasLongerRun(n) ==
    \E i \in 1..NumDigits(n) : \E j \in (i + 2)..NumDigits(n) : MaximalRun(n, i, j)

\* C14: is_valid_double_pair(n) is true exactly when the digits of n never
\* decrease and some maximal run of equal digits has length exactly two
C14_DoublePair ==
    pc = "is_valid_double_pair" =>
        ret = (NeverDecreases(num) /\ HasRunOfExactlyTwo(num))

C14_Witness ==
    /\ pc = "is_valid_double_pair"
    /\ ret = TRUE
    /\ HasLongerRun(num)
    /\ MaximalRun(num, 1, 2)

-----------------------------------------------------------------------------
(* Further properties of the wire-crossing engine *)

\* C15: for every point of the crossover set, steps_to_crossover completes
\* with a step count: it neither aborts nor reports that the crossover was
\* never reached
C15_StepsTotal ==
    (pc = "steps_to_crossover" /\ point \in SeqRange(Crossovers(wire_one, wire_two)))
        => ret.kind = "ok"

C17_CrossoversSilent ==
    pc = "crossovers" => stdout = <<>>

-----------------------------------------------------------------------------
(* Panel: the display of two wires.  A Panel is <<wire 0, wire 1>>, the     *)
(* HashMap display a function from the keys <<j, i>> to characters          *)

\* CornerPair::on_interval
OnInterval(self, pt) ==
    IF Orientation(self) = "Vertical"
    THEN LET miny == MinI(self[1].y, self[2].y)
             maxy == MaxI(self[1].y, self[2].y)
         IN  self[1].x = pt.x /\ ContainsIncl(miny, maxy, pt.y)
    ELSE LET minx == MinI(self[1].x, self[2].x)
             maxx == MaxI(self[1].x, self[2].x)
         IN  self[1].y = pt.y /\ ContainsIncl(minx, maxx, pt.x)

\* intervals: the corner pairs of wire 0, then those of wire 1
Intervals(p) == TraceCorners(p[1], ORIGIN) \o TraceCorners(p[2], ORIGIN)

\* cnrs: both corners of every corner pair, flattened
Cnrs(p) ==
    LET iv == Intervals(p)
    IN  [k \in 1..(2 * Len(iv)) |-> iv[(k + 1) \div 2][2 - (k % 2)]]

\* the loop that widens min_bounds and max_bounds, both starting at (0,0)
RECURSIVE BoundsLoop(_, _, _, _)
BoundsLoop(cnrs, k, min_bounds, max_bounds) ==
    IF k > Len(cnrs) THEN [min_bounds |-> min_bounds, max_bounds |-> max_bounds]
    ELSE BoundsLoop(cnrs, k + 1,
                    Coord(MinI(min_bounds.x, cnrs[k].x), MinI(min_bounds.y, cnrs[k].y)),
                    Coord(MaxI(max_bounds.x, cnrs[k].x), MaxI(max_bounds.y, cnrs[k].y)))

Bounds(p) == BoundsLoop(Cnrs(p), 1, ORIGIN, ORIGIN)

\* the keys (j, i) the two nested loops insert
Keys(b) == (b.min_bounds.x .. b.max_bounds.x) \X (b.min_bounds.y .. b.max_bounds.y)

\* Panel::generate
Generate(p) ==
    LET b          == Bounds(p)
        crossovers == Crossovers(p[1], p[2])
        intervals  == Intervals(p)
    IN  [display    |-> [k \in Keys(b) |->
                            LET coord == Coord(k[1], k[2])
                                on_interval == \E n \in 1..Len(intervals) :
                                                   OnInterval(intervals[n], coord)
                            IN  IF SeqContains(crossovers, coord) THEN "X"
                                ELSE IF on_interval THEN "5"
                                ELSE "."],
         min_bounds |-> b.min_bounds,
         max_bounds |-> b.max_bounds]

\* Panel::generate_from_trace
GenerateFromTrace(p) ==
    LET all_trace == Trace(p[2], ORIGIN) \o Trace(p[1], ORIGIN)
        b         == Generate(p)
        cos       == Crossovers(p[1], p[2])
    IN  [display    |-> [k \in Keys(b) |->
                            LET cd == Coord(k[1], k[2])
                                ch == IF SeqContains(all_trace, cd) THEN "5"
                                      ELSE IF SeqContains(cos, cd) THEN "X"
                                      ELSE "."
                            IN  IF cd = ORIGIN THEN "O" ELSE ch],
         min_bounds |-> b.min_bounds,
         max_bounds |-> b.max_bounds]

\* i64 %: the remainder has the sign of the dividend
RemI(a, b) == IF a >= 0 THEN a % b ELSE 0 - ((0 - a) % b)

\* what print_panel prints after generate has run: the bounds, the column
\* header, the rows from the highest y down, the column header again
PrintPanelLines(p) ==
    LET g         == Generate(p)
        xs        == RangeInclSeq(g.min_bounds.x, g.max_bounds.x)
        ys        == RangeInclSeq(g.min_bounds.y, g.max_bounds.y)
        first_row == [header |-> [n \in 1..Len(xs) |-> RemI(xs[n], 10)]]
        lines     == [m \in 1..Len(ys) |->
                         [label |-> ys[m],
                          cells |-> [n \in 1..Len(xs) |-> g.display[<<xs[n], ys[m]>>]]]]
    IN  <<[min_bounds |-> g.min_bounds, max_bounds |-> g.max_bounds], first_row>>
            \o Rev(lines) \o <<first_row>>

-----------------------------------------------------------------------------
(* Specification SpecPanel: one Panel and its display methods *)

InitPanel ==
    /\ panel \in SampleWires \X Wires
    /\ pc = "start"
    /\ ret = None
    /\ stdout = <<>>
    /\ code = <<>>
    /\ ip = 0
    /\ num = 0
    /\ wire_one = <<>>
    /\ wire_two = <<>>
    /\ input = <<>>
    /\ cmds_s = <<>>
    /\ cmd_self = Command("Up", 0)
    /\ start = ORIGIN
    /\ point = ORIGIN
    /\ cp_self = CornerPair(ORIGIN, ORIGIN)
    /\ cp_other = CornerPair(ORIGIN, ORIGIN)

\* panel.generate(); its call of crossovers prints
GenerateStep ==
    /\ pc = "start"
    /\ pc' = "generate"
    /\ ret' = Generate(panel)
    /\ stdout' = stdout \o CrossoversPrinted(panel[1], panel[2])
    /\ UNCHANGED <<panel, code, ip, num, cmd_self, cmds_s, input, wire_one, wire_two,
                   start, point, cp_self, cp_other>>

\* panel.generate_from_trace(); generate() and the second call of crossovers
\* both print
GenerateFromTraceStep ==
    /\ pc = "start"
    /\ pc' = "generate_from_trace"
    /\ ret' = GenerateFromTrace(panel)
    /\ stdout' = stdout \o CrossoversPrinted(panel[1], panel[2])
                        \o CrossoversPrinted(panel[1], panel[2])
    /\ UNCHANGED <<panel, code, ip, num, cmd_self, cmds_s, input, wire_one, wire_two,
                   start, point, cp_self, cp_other>>

\* panel.print_panel()
PrintPanelStep ==
    /\ pc = "start"
    /\ pc' = "print_panel"
    /\ ret' = None
    /\ stdout' = stdout \o CrossoversPrinted(panel[1], panel[2]) \o PrintPanelLines(panel)
    /\ UNCHANGED <<panel, code, ip, num, cmd_self, cmds_s, input, wire_one, wire_two,
                   start, point, cp_self, cp_other>>

NextPanel == GenerateStep \/ GenerateFromTraceStep \/ PrintPanelStep

SpecPanel == InitPanel /\ [][NextPanel]_vars

\* the points either wire of the panel visits, the origin included
PanelPath == {ORIGIN} \cup SeqRange(Trace(panel[1], ORIGIN))
                      \cup SeqRange(Trace(panel[2], ORIGIN))

\* the bounding box of the corners of both wires and the origin: every wire
\* turns only at points of its path
BoxKeys ==
    LET xs == {p.x : p \in PanelPath}
        ys == {p.y : p \in PanelPath}
    IN  (SetMin(xs) .. (0 - SetMin({0 - v : v \in xs})))
            \X (SetMin(ys) .. (0 - SetMin({0 - v : v \in ys})))

\* the character stated for the coordinate (j, i)
CharAsStated(k) ==
    LET c == Coord(k[1], k[2])
    IN  IF c = ORIGIN THEN "O"
        ELSE IF SeqContains(Crossovers(panel[1], panel[2]), c) THEN "X"
        ELSE IF c \in PanelPath THEN "5"
        ELSE "."

\* the rows print_panel printed, as a grid: the rows are the printed records
\* with a label
PrintedGrid ==
    LET rows == SelectSeq(stdout, LAMBDA r : "label" \in DOMAIN r)
        hdr  == stdout[CHOOSE n \in 1..Len(stdout) : "min_bounds" \in DOMAIN stdout[n]]
    IN  [k \in {<<hdr.min_bounds.x + n - 1, rows[m].label>> :
                    m \in 1..Len(rows), n \in 1..Len(rows[1].cells)} |->
            LET m == CHOOSE r \in 1..Len(rows) : rows[r].label = k[2]
            IN  rows[m].cells[k[1] - hdr.min_bounds.x + 1]]

\* C18: the grid generate builds, and print_panel prints, has one character
\* for every coordinate of the bounding box, 'O' at the origin, 'X' at every
\* crossover, '5' at every other point of a traced segment, '.' elsewhere
C18_PanelGrid ==
    /\ pc = "generate" =>
          /\ DOMAIN ret.display = BoxKeys
          /\ \A k \in BoxKeys : ret.display[k] = CharAsStated(k)
    /\ pc = "print_panel" =>
          /\ DOMAIN PrintedGrid = BoxKeys
          /\ \A k \in BoxKeys : PrintedGrid[k] = CharAsStated(k)

-----------------------------------------------------------------------------
(* Relations between the crossover set and the traces *)

\* C19: wire_one.crossovers(wire_two) and wire_two.crossovers(wire_one) hold
\* the same points, so the membership check of
\* wire_two.steps_to_crossover(wire_one, p) passes for every p of the former
C19_CrossoversSymmetric ==
    pc = "crossovers" =>
        /\ SeqRange(ret) = SeqRange(Crossovers(wire_two, wire_one))
        /\ \A p \in SeqRange(ret) :
              StepsToCrossover(wire_two, wire_one, p) # Err("point not a crossover")

\* C19 witness: two crossovers that the two calls list in different orders
C19_Witness ==
    /\ pc = "crossovers"
    /\ Len(ret) >= 2
    /\ ret # Crossovers(wire_two, wire_one)
    /\ StepsToCrossover(wire_two, wire_one, ret[1]).kind = "ok"

\* C20: every point of wire_one.crossovers(wire_two) occurs in the unit-step
\* trace of wire_one from the origin and in that of wire_two
C20_CrossoversOnBothTraces ==
    pc = "crossovers" =>
        \A p \in SeqRange(ret) :
            /\ SeqContains(Trace(wire_one, ORIGIN), p)
            /\ SeqContains(Trace(wire_two, ORIGIN), p)

\* C20 witness: a crossover at the origin, which both wires pass again after
\* leaving it
C20_Witness ==
    /\ pc = "crossovers"
    /\ SeqContains(ret, ORIGIN)
    /\ SeqContains(Trace(wire_one, ORIGIN), ORIGIN)
    /\ SeqContains(Trace(wire_two, ORIGIN), ORIGIN)

====
